---- MODULE Spec2Model ----
(***************************************************************************)
(* kubetui: the navigation / dispatch state machine of src/app.rs and      *)
(* src/ui.rs.                                                              *)
(*                                                                         *)
(* A Rust String is a sequence of text pieces: a piece is a whitespace     *)
(* character, the quote character or a run of other characters.  The empty *)
(* String is << >>; concatenation (format!) is \o.  An Option is a         *)
(* sequence of length at most one: None is << >>, Some(x) is << x >>.      *)
(* Indices are 0-based as in the source; TLA+ sequences are 1-based.       *)
(***************************************************************************)
EXTENDS Integers, Sequences, FiniteSets, TLC

VARIABLES
    app,      \* the App struct (src/app.rs:16-44), one field per struct field
    event,    \* the event read by the last iteration of run_app's loop
    calls,    \* the kubectl commands that iteration ran, in order
    events,   \* how many events the loop has read
    exit      \* "running", or how run_app returned

vars == << app, event, calls, events, exit >>

----------------------------------------------------------------------------
(* Bounds of the model *)

\* longest listing a kubectl list command prints
MaxItems == 2
\* longest text typed into the new-pod-name field
MaxNameLen == 2
\* longest session: events read by the loop
MaxEvents == 8
\* events read by the loop from an App met in the middle of a session
MaxStepsOn == 4

----------------------------------------------------------------------------
(* Rust library operations the source uses *)

None == << >>
Some(x) == << x >>
is_some(o) == o # << >>
unwrap_or(o, d) == IF o = << >> THEN d ELSE o[1]
saturating_sub(a, b) == IF a >= b THEN a - b ELSE 0
\* Vec::get followed by unwrap_or_default: an empty name when the index is
\* past the end
get_or_default(v, i) == IF i < Len(v) THEN << v[i + 1] >> ELSE << << >> >>
\* Vec::get with a 0-based index
get(v, i) == IF i < Len(v) THEN << v[i + 1] >> ELSE << >>

\* char::is_whitespace: the 25 code points of Unicode White_Space.  The
\* second line holds U+000B, U+0085, U+00A0 and U+1680 themselves; the code
\* points from U+2000 on cannot be written in a string here and stand as
\* char::escape_unicode prints them.
Whitespace ==
    { "\t", "\n", "\f", "\r", " ",
      "", "", " ", " ",
      "\\u{2000}", "\\u{2001}", "\\u{2002}", "\\u{2003}", "\\u{2004}", "\\u{2005}",
      "\\u{2006}", "\\u{2007}", "\\u{2008}", "\\u{2009}", "\\u{200a}",
      "\\u{2028}", "\\u{2029}", "\\u{202f}", "\\u{205f}", "\\u{3000}" }

RECURSIVE trim_start_matches(_, _)
trim_start_matches(s, c) ==
    IF s # << >> /\ Head(s) = c THEN trim_start_matches(Tail(s), c) ELSE s

RECURSIVE trim_end_matches(_, _)
trim_end_matches(s, c) ==
    IF s # << >> /\ s[Len(s)] = c
    THEN trim_end_matches(SubSeq(s, 1, Len(s) - 1), c)
    ELSE s

\* trim_matches that strips the front only
trim_matches_front(s, c) == trim_start_matches(s, c)

trim_matches(s, c) == trim_end_matches(trim_start_matches(s, c), c)

RECURSIVE trim_start(_)
trim_start(s) ==
    IF s # << >> /\ Head(s) \in Whitespace THEN trim_start(Tail(s)) ELSE s

RECURSIVE trim_end(_)
trim_end(s) ==
    IF s # << >> /\ s[Len(s)] \in Whitespace
    THEN trim_end(SubSeq(s, 1, Len(s) - 1))
    ELSE s

trim(s) == trim_end(trim_start(s))

\* words of s, cur the word being read, acc the words read so far
RECURSIVE SplitWords(_, _, _)
SplitWords(s, cur, acc) ==
    IF s = << >>
    THEN IF cur = << >> THEN acc ELSE Append(acc, cur)
    ELSE IF Head(s) \in Whitespace
         THEN SplitWords(Tail(s), << >>,
                         IF cur = << >> THEN acc ELSE Append(acc, cur))
         ELSE SplitWords(Tail(s), Append(cur, Head(s)), acc)

split_whitespace(s) == SplitWords(s, << >>, << >>)

\* a line ends at "\n" (a "\r" just before it is dropped); text after the
\* last "\n" is a line when it is not empty
RECURSIVE SplitLines(_, _, _)
SplitLines(s, cur, acc) ==
    IF s = << >>
    THEN IF cur = << >> THEN acc ELSE Append(acc, cur)
    ELSE IF Head(s) = "\n"
         THEN SplitLines(Tail(s), << >>,
                         Append(acc,
                                IF cur # << >> /\ cur[Len(cur)] = "\r"
                                THEN SubSeq(cur, 1, Len(cur) - 1)
                                ELSE cur))
         ELSE SplitLines(Tail(s), Append(cur, Head(s)), acc)

lines(s) == SplitLines(s, << >>, << >>)

----------------------------------------------------------------------------
(* The kubectl process: what std::process::Command can return *)

\* names of cluster objects (contexts, namespaces, pods), in the order
\* kubectl lists them
Universe == << << "a" >>, << "b", "c" >>, << "d" >>, << "e", "f" >> >>
Names == { Universe[i] : i \in 1..2 }

\* the listings kubectl prints: the first n names, n <= MaxItems
Listings == { SubSeq(Universe, 1, n) : n \in 0..MaxItems }

RECURSIVE JoinWith(_, _)
JoinWith(items, sep) ==
    IF items = << >> THEN << >>
    ELSE IF Len(items) = 1 THEN items[1]
    ELSE items[1] \o << sep >> \o JoinWith(Tail(items), sep)

\* kubectl -o=jsonpath='{.items[*].metadata.name}' run without a shell: the
\* quotes are part of the template, the names are separated by spaces
jsonpath_stdout(items) == << "'" >> \o JoinWith(items, " ") \o << "'" >>

\* kubectl config get-contexts -o=name: one name per line
RECURSIVE name_stdout(_)
name_stdout(items) ==
    IF items = << >> THEN << >>
    ELSE items[1] \o << "\n" >> \o name_stdout(Tail(items))

\* Command::output()/status() failed to run kubectl (the `?` in app.rs)
IoErrors == { << "No such file or directory (os error 2)" >> }
\* what kubectl writes on stderr when it exits non-zero
Stderrs == { << "connection refused" >> }
\* what the table of `kubectl get pods` writes on stdout
Stdouts == { << >>, << "NAME READY STATUS" >> }
\* what an exec session or a debug session writes on stdout
SessionStdouts == { << >>, << "root@pod:/# exit" >> }

IoError(e) ==
    [launched |-> FALSE, error |-> e, success |-> FALSE,
     stdout |-> << >>, stderr |-> << >>]
Exited(ok, out, err) ==
    [launched |-> TRUE, error |-> << >>, success |-> ok,
     stdout |-> out, stderr |-> err]

Failures ==
    { IoError(e) : e \in IoErrors } \cup { Exited(FALSE, << >>, e) : e \in Stderrs }

NamespaceListResults ==
    Failures \cup { Exited(TRUE, jsonpath_stdout(l), << >>) : l \in Listings }
PodListResults ==
    Failures \cup { Exited(TRUE, jsonpath_stdout(l), << >>) : l \in Listings }
ContextListResults ==
    Failures \cup { Exited(TRUE, name_stdout(l), << >>) : l \in Listings }
StatusResults ==
    Failures \cup { Exited(TRUE, << >>, << >>) }
OutputResults ==
    Failures \cup { Exited(TRUE, o, << >>) : o \in Stdouts }
SessionResults ==
    Failures \cup { Exited(TRUE, o, << >>) : o \in SessionStdouts }
CurrentContextResults ==
    Failures \cup { Exited(TRUE, n \o << "\n" >>, << >>) : n \in Names }
                \cup { Exited(TRUE, << "\n" >>, << >>) }
NoCommand == { Exited(TRUE, << >>, << >>) }

\* the record of one kubectl run: spec operation, arguments, how it ended
\* and what it printed on stdout and on stderr
Outcome(r) ==
    IF ~r.launched THEN "io_error" ELSE IF r.success THEN "ok" ELSE "nonzero"
Call(op, args, r) ==
    [op |-> op, args |-> args, outcome |-> Outcome(r), stdout |-> r.stdout,
     stderr |-> r.stderr]

\* Result<(), Box<dyn Error>>
Ok == [ok |-> TRUE, err |-> << >>]
Err(e) == [ok |-> FALSE, err |-> e]

----------------------------------------------------------------------------
(* src/app.rs: the App struct and its methods.  A method that runs kubectl *)
(* takes the process result r and yields the new App, the value it returns *)
(* and the command it ran.                                                 *)

Commands ==
    << << "Choose Context" >>, << "Choose Namespace" >>, << "Pods" >>, << "Copy Pod" >> >>

DefaultNamespace == << "default" >>

get_current_context(r) ==
    IF ~r.launched THEN None
    ELSE IF r.success
         THEN LET ctx == trim(r.stdout)
              IN  IF ctx # << >> THEN Some(ctx) ELSE None
         ELSE None

new(default_context) ==
    [ state |-> "MainMenu",
      commands |-> Commands,
      list_state |-> Some(0),
      namespaces |-> << >>,
      namespace_list_state |-> None,
      contexts |-> << >>,
      context_list_state |-> None,
      pods |-> << >>,
      pod_list_state |-> None,
      selected_namespace |-> None,
      selected_context |-> default_context,
      selected_pod |-> None,
      default_namespace |-> DefaultNamespace,
      new_pod_name |-> << >>,
      message |-> << >>,
      output |-> << >>,
      last_main_menu_index |-> None ]

\* current_namespace that ignores the selection
current_namespace_default(a) == a.default_namespace

current_namespace(a) == unwrap_or(a.selected_namespace, a.default_namespace)

Returned(a, ret, call) == [app |-> a, ret |-> ret, calls |-> << call >>]

\* load_namespaces without the cursor reset
load_namespaces_keep_cursor(a, r) ==
    LET call == Call("list_namespaces", << >>, r)
    IN  IF ~r.launched THEN Returned(a, Err(r.error), call)
        ELSE IF r.success
        THEN Returned([a EXCEPT
                          !.namespaces = split_whitespace(trim_matches(r.stdout, "'"))],
                      Ok, call)
        ELSE Returned(a, Err(<< "Failed to get namespaces: " >> \o r.stderr), call)

load_namespaces(a, r) ==
    LET call == Call("list_namespaces", << >>, r)
    IN  IF ~r.launched THEN Returned(a, Err(r.error), call)
        ELSE IF r.success
        THEN Returned([a EXCEPT
                          !.namespaces = split_whitespace(trim_matches(r.stdout, "'")),
                          !.namespace_list_state = Some(0)],
                      Ok, call)
        ELSE Returned(a, Err(<< "Failed to get namespaces: " >> \o r.stderr), call)

\* load_contexts that stores what kubectl printed before it looks at the exit
\* status
load_contexts_store_first(a, r) ==
    LET call == Call("list_contexts", << >>, r)
        stored == [a EXCEPT !.contexts = lines(r.stdout),
                            !.context_list_state = Some(0)]
    IN  IF ~r.launched THEN Returned(a, Err(r.error), call)
        ELSE IF r.success
        THEN Returned(stored, Ok, call)
        ELSE Returned(stored, Err(<< "Failed to load contexts" >>), call)

load_contexts(a, r) ==
    LET call == Call("list_contexts", << >>, r)
    IN  IF ~r.launched THEN Returned(a, Err(r.error), call)
        ELSE IF r.success
        THEN Returned([a EXCEPT
                          !.contexts = lines(r.stdout),
                          !.context_list_state = Some(0)],
                      Ok, call)
        ELSE Returned(a, Err(<< "Failed to load contexts" >>), call)

\* load_pods without the exit-status check
load_pods_unchecked(a, r) ==
    LET namespace == current_namespace(a)
        call == Call("list_pods", << namespace >>, r)
    IN  IF ~r.launched THEN Returned(a, Err(r.error), call)
        ELSE Returned([a EXCEPT
                          !.pods = split_whitespace(trim_matches(r.stdout, "'")),
                          !.pod_list_state = Some(0)],
                      Ok, call)

\* load_pods without the cursor reset
load_pods_keep_cursor(a, r) ==
    LET namespace == current_namespace(a)
        call == Call("list_pods", << namespace >>, r)
    IN  IF ~r.launched THEN Returned(a, Err(r.error), call)
        ELSE IF r.success
        THEN Returned([a EXCEPT
                          !.pods = split_whitespace(trim_matches(r.stdout, "'"))],
                      Ok, call)
        ELSE Returned(a, Err(<< "Failed to get pods: " >> \o r.stderr), call)

load_pods(a, r) ==
    LET namespace == current_namespace(a)
        call == Call("list_pods", << namespace >>, r)
    IN  IF ~r.launched THEN Returned(a, Err(r.error), call)
        ELSE IF r.success
        THEN Returned([a EXCEPT
                          !.pods = split_whitespace(trim_matches(r.stdout, "'")),
                          !.pod_list_state = Some(0)],
                      Ok, call)
        ELSE Returned(a, Err(<< "Failed to get pods: " >> \o r.stderr), call)

\* switch_context that records the context without looking at the exit status
switch_context_unchecked(a, context, r) ==
    LET call == Call("switch_context", << context >>, r)
    IN  IF ~r.launched THEN Returned(a, Err(r.error), call)
        ELSE Returned([a EXCEPT !.selected_context = Some(context)], Ok, call)

switch_context(a, context, r) ==
    LET call == Call("switch_context", << context >>, r)
    IN  IF ~r.launched THEN Returned(a, Err(r.error), call)
        ELSE IF r.success
        THEN Returned([a EXCEPT !.selected_context = Some(context)], Ok, call)
        ELSE Returned(a, Err(<< "Failed to switch context" >>), call)

\* only ever called with ["get", "pods", "-n", namespace] (ui.rs:243)
execute_kubectl(a, namespace, r) ==
    LET call == Call("preview_pods", << namespace >>, r)
    IN  IF ~r.launched THEN Returned(a, Err(r.error), call)
        ELSE Returned([a EXCEPT !.output = IF r.success THEN r.stdout ELSE r.stderr],
                      Ok, call)

\* copy_pod that passes the two pod names to kubectl in the other order
copy_pod_swapped(a, original_pod, new_pod_name, r) ==
    LET namespace == current_namespace(a)
        call == Call("copy_pod", << namespace, new_pod_name, original_pod >>, r)
    IN  IF ~r.launched THEN Returned(a, Err(r.error), call)
        ELSE Returned([a EXCEPT
                          !.output = IF r.success THEN r.stdout ELSE r.stderr,
                          !.state = "ShowOutput"],
                      Ok, call)

copy_pod(a, original_pod, new_pod_name, r) ==
    LET namespace == current_namespace(a)
        call == Call("copy_pod", << namespace, original_pod, new_pod_name >>, r)
    IN  IF ~r.launched THEN Returned(a, Err(r.error), call)
        ELSE Returned([a EXCEPT
                          !.output = IF r.success THEN r.stdout ELSE r.stderr,
                          !.state = "ShowOutput"],
                      Ok, call)

exec_pod(a, pod, r) ==
    LET namespace == current_namespace(a)
        call == Call("exec_interactive", << namespace, pod >>, r)
    IN  IF ~r.launched THEN Returned(a, Err(r.error), call)
        ELSE Returned([a EXCEPT
                          !.output = IF r.success THEN r.stdout ELSE r.stderr,
                          !.state = "ShowOutput"],
                      Ok, call)

----------------------------------------------------------------------------
(* src/ui.rs: the key handlers.  A handler takes the App, the key code and *)
(* the result of the kubectl command it may run, and yields the new App    *)
(* and the commands it ran.                                                *)

Key(code) == [code |-> code, ch |-> ""]
Char(c) == [code |-> "Char", ch |-> c]

Chars == {"q", "j", "k"}
Keys ==
    { Key(c) : c \in {"Up", "Down", "Right", "Enter", "Esc", "Backspace"} }
        \cup { Char(c) : c \in Chars }

IsUp(k) == k = Key("Up") \/ k = Char("k")
IsDown(k) == k = Key("Down") \/ k = Char("j")

Handled(a, cs) == [app |-> a, calls |-> cs]

\* maybe_load_preview without the early return on an unchanged index
maybe_load_preview_undebounced(a, new_idx, r) ==
    LET cleared == [a EXCEPT !.output = << >>]
    IN  IF new_idx = 2
        THEN LET res == execute_kubectl(cleared, current_namespace(cleared), r)
                 shown == IF res.ret.ok
                          THEN res.app
                          ELSE [res.app EXCEPT
                                   !.output = << "Error listing pods: " >> \o res.ret.err]
             IN  Handled([shown EXCEPT !.last_main_menu_index = Some(new_idx)],
                         res.calls)
        ELSE Handled([cleared EXCEPT !.last_main_menu_index = Some(new_idx)], << >>)

\* maybe_load_preview that reports a failed preview as the other handlers
\* report a failed command: in message, on the Message screen
maybe_load_preview_escalated(a, new_idx, r) ==
    IF a.last_main_menu_index = Some(new_idx)
    THEN Handled(a, << >>)
    ELSE LET cleared == [a EXCEPT !.output = << >>]
         IN  IF new_idx = 2
             THEN LET res == execute_kubectl(cleared, current_namespace(cleared), r)
                      shown == IF res.ret.ok
                               THEN res.app
                               ELSE [res.app EXCEPT
                                        !.message = << "Error listing pods: " >> \o res.ret.err,
                                        !.state = "Message"]
                  IN  Handled([shown EXCEPT !.last_main_menu_index = Some(new_idx)],
                              res.calls)
             ELSE Handled([cleared EXCEPT !.last_main_menu_index = Some(new_idx)], << >>)

maybe_load_preview(a, new_idx, r) ==
    IF a.last_main_menu_index = Some(new_idx)
    THEN Handled(a, << >>)
    ELSE LET cleared == [a EXCEPT !.output = << >>]
         IN  IF new_idx = 2
             THEN LET res == execute_kubectl(cleared, current_namespace(cleared), r)
                      shown == IF res.ret.ok
                               THEN res.app
                               ELSE [res.app EXCEPT
                                        !.output = << "Error listing pods: " >> \o res.ret.err]
                  IN  Handled([shown EXCEPT !.last_main_menu_index = Some(new_idx)],
                              res.calls)
             ELSE Handled([cleared EXCEPT !.last_main_menu_index = Some(new_idx)], << >>)

\* handle_load_namespaces that opens the selection screen whatever
\* load_namespaces returned
handle_load_namespaces_ignore_error(a, r) ==
    LET res == load_namespaces(a, r)
    IN  Handled([res.app EXCEPT !.state = "NamespaceSelection"], res.calls)

handle_load_namespaces(a, r) ==
    LET res == load_namespaces(a, r)
    IN  IF ~res.ret.ok
        THEN Handled([res.app EXCEPT
                         !.message = << "Error loading namespaces: " >> \o res.ret.err,
                         !.state = "Message"],
                     res.calls)
        ELSE Handled([res.app EXCEPT !.state = "NamespaceSelection"], res.calls)

handle_load_contexts(a, r) ==
    LET res == load_contexts(a, r)
    IN  IF ~res.ret.ok
        THEN Handled([res.app EXCEPT
                         !.message = << "Error loading contexts: " >> \o res.ret.err,
                         !.state = "Message"],
                     res.calls)
        ELSE Handled([res.app EXCEPT !.state = "ContextSelection"], res.calls)

handle_main_menu(a, key_code, r) ==
    LET old_index == unwrap_or(a.list_state, 0)
        last_idx == saturating_sub(Len(a.commands), 1)
    IN  IF IsUp(key_code)
        THEN LET new_idx == saturating_sub(old_index, 1)
             IN  maybe_load_preview([a EXCEPT !.list_state = Some(new_idx)], new_idx, r)
        ELSE IF IsDown(key_code)
        THEN LET new_idx == IF old_index < last_idx THEN old_index + 1 ELSE 0
             IN  maybe_load_preview([a EXCEPT !.list_state = Some(new_idx)], new_idx, r)
        ELSE IF key_code \in {Key("Right"), Key("Enter")}
        THEN CASE old_index = 0 -> handle_load_contexts(a, r)
               [] old_index = 1 -> handle_load_namespaces(a, r)
               [] old_index = 2 ->
                    LET res == load_pods(a, r)
                    IN  IF ~res.ret.ok
                        THEN Handled([res.app EXCEPT
                                         !.message = << "Error loading pods: " >>
                                                         \o res.ret.err,
                                         !.state = "Message"],
                                     res.calls)
                        ELSE Handled([res.app EXCEPT !.state = "ExecPodSelection"],
                                     res.calls)
               [] old_index = 3 ->
                    LET res == load_pods(a, r)
                    IN  IF res.ret.ok
                        THEN Handled([res.app EXCEPT !.state = "PodSelection"], res.calls)
                        ELSE Handled([res.app EXCEPT
                                         !.message = << "Error loading pods: " >>
                                                         \o res.ret.err,
                                         !.state = "Message"],
                                     res.calls)
               [] OTHER -> Handled(a, << >>)
        ELSE Handled(a, << >>)

\* handle_exec_pod_selection whose Esc also forgets the pod list
handle_exec_pod_selection_esc_clears(a, key_code, r) ==
    IF key_code = Key("Esc")
    THEN Handled([a EXCEPT !.state = "MainMenu",
                           !.pods = << >>,
                           !.pod_list_state = None],
                 << >>)
    ELSE LET selected == unwrap_or(a.pod_list_state, 0)
             last_idx == saturating_sub(Len(a.pods), 1)
         IN  IF IsUp(key_code)
             THEN Handled([a EXCEPT !.pod_list_state = Some(saturating_sub(selected, 1))],
                          << >>)
             ELSE IF IsDown(key_code)
             THEN Handled([a EXCEPT !.pod_list_state =
                                   Some(IF selected < last_idx THEN selected + 1 ELSE 0)],
                          << >>)
             ELSE IF key_code = Key("Enter")
             THEN LET pod == get(a.pods, selected)
                  IN  IF is_some(pod)
                      THEN LET res == exec_pod(a, pod[1], r)
                           IN  IF res.ret.ok
                               THEN Handled(res.app, res.calls)
                               ELSE Handled([res.app EXCEPT
                                                !.message = << "Error exec into pod: " >>
                                                                \o res.ret.err,
                                                !.state = "Message"],
                                            res.calls)
                      ELSE Handled(a, << >>)
             ELSE Handled(a, << >>)

handle_exec_pod_selection(a, key_code, r) ==
    LET selected == unwrap_or(a.pod_list_state, 0)
        last_idx == saturating_sub(Len(a.pods), 1)
    IN  IF IsUp(key_code)
        THEN Handled([a EXCEPT !.pod_list_state = Some(saturating_sub(selected, 1))], << >>)
        ELSE IF IsDown(key_code)
        THEN Handled([a EXCEPT !.pod_list_state =
                              Some(IF selected < last_idx THEN selected + 1 ELSE 0)],
                     << >>)
        ELSE IF key_code = Key("Enter")
        THEN LET pod == get(a.pods, selected)
             IN  IF is_some(pod)
                 THEN LET res == exec_pod(a, pod[1], r)
                      IN  IF res.ret.ok
                          THEN Handled(res.app, res.calls)
                          ELSE Handled([res.app EXCEPT
                                           !.message = << "Error exec into pod: " >>
                                                           \o res.ret.err,
                                           !.state = "Message"],
                                       res.calls)
                 ELSE Handled(a, << >>)
        ELSE IF key_code = Key("Esc")
        THEN Handled([a EXCEPT !.state = "MainMenu"], << >>)
        ELSE Handled(a, << >>)

\* handle_copy_pod_selection that keeps the text typed on an earlier visit
handle_copy_pod_selection_keep_text(a, key_code) ==
    LET selected == unwrap_or(a.pod_list_state, 0)
        last_idx == saturating_sub(Len(a.pods), 1)
    IN  IF IsUp(key_code)
        THEN Handled([a EXCEPT !.pod_list_state = Some(saturating_sub(selected, 1))], << >>)
        ELSE IF IsDown(key_code)
        THEN Handled([a EXCEPT !.pod_list_state =
                              Some(IF selected < last_idx THEN selected + 1 ELSE 0)],
                     << >>)
        ELSE IF key_code = Key("Enter")
        THEN LET pod == get(a.pods, selected)
             IN  IF is_some(pod)
                 THEN Handled([a EXCEPT !.selected_pod = Some(pod[1]),
                                        !.state = "CopyPodNameInput"],
                              << >>)
                 ELSE Handled(a, << >>)
        ELSE IF key_code = Key("Esc")
        THEN Handled([a EXCEPT !.state = "MainMenu"], << >>)
        ELSE Handled(a, << >>)

handle_copy_pod_selection(a, key_code) ==
    LET selected == unwrap_or(a.pod_list_state, 0)
        last_idx == saturating_sub(Len(a.pods), 1)
    IN  IF IsUp(key_code)
        THEN Handled([a EXCEPT !.pod_list_state = Some(saturating_sub(selected, 1))], << >>)
        ELSE IF IsDown(key_code)
        THEN Handled([a EXCEPT !.pod_list_state =
                              Some(IF selected < last_idx THEN selected + 1 ELSE 0)],
                     << >>)
        ELSE IF key_code = Key("Enter")
        THEN LET pod == get(a.pods, selected)
             IN  IF is_some(pod)
                 THEN Handled([a EXCEPT !.selected_pod = Some(pod[1]),
                                        !.new_pod_name = << >>,
                                        !.state = "CopyPodNameInput"],
                              << >>)
                 ELSE Handled(a, << >>)
        ELSE IF key_code = Key("Esc")
        THEN Handled([a EXCEPT !.state = "MainMenu"], << >>)
        ELSE Handled(a, << >>)

\* String::pop
pop(s) == IF s = << >> THEN s ELSE SubSeq(s, 1, Len(s) - 1)

\* handle_copy_pod_name without the empty-name check
handle_copy_pod_name_unvalidated(a, key_code, r) ==
    IF key_code = Key("Enter")
    THEN IF is_some(a.selected_pod)
         THEN LET res == copy_pod(a, a.selected_pod[1], a.new_pod_name, r)
                  shown == IF res.ret.ok
                           THEN res.app
                           ELSE [res.app EXCEPT
                                    !.message = << "Error copying pod: " >> \o res.ret.err,
                                    !.state = "Message"]
              IN  Handled([shown EXCEPT !.selected_pod = None,
                                        !.new_pod_name = << >>],
                          res.calls)
         ELSE Handled(a, << >>)
    ELSE IF key_code.code = "Char"
    THEN Handled([a EXCEPT !.new_pod_name = Append(@, key_code.ch)], << >>)
    ELSE IF key_code = Key("Backspace")
    THEN Handled([a EXCEPT !.new_pod_name = pop(@)], << >>)
    ELSE IF key_code = Key("Esc")
    THEN Handled([a EXCEPT !.state = "PodSelection"], << >>)
    ELSE Handled(a, << >>)

\* handle_copy_pod_name without the Esc arm
handle_copy_pod_name_no_esc(a, key_code, r) ==
    IF key_code = Key("Enter")
    THEN IF a.new_pod_name = << >>
         THEN Handled([a EXCEPT !.message = << "Please enter a new pod name" >>,
                                !.state = "Message"],
                      << >>)
         ELSE IF is_some(a.selected_pod)
         THEN LET res == copy_pod(a, a.selected_pod[1], a.new_pod_name, r)
                  shown == IF res.ret.ok
                           THEN res.app
                           ELSE [res.app EXCEPT
                                    !.message = << "Error copying pod: " >> \o res.ret.err,
                                    !.state = "Message"]
              IN  Handled([shown EXCEPT !.selected_pod = None,
                                        !.new_pod_name = << >>],
                          res.calls)
         ELSE Handled(a, << >>)
    ELSE IF key_code.code = "Char"
    THEN Handled([a EXCEPT !.new_pod_name = Append(@, key_code.ch)], << >>)
    ELSE IF key_code = Key("Backspace")
    THEN Handled([a EXCEPT !.new_pod_name = pop(@)], << >>)
    ELSE Handled(a, << >>)

handle_copy_pod_name(a, key_code, r) ==
    IF key_code = Key("Enter")
    THEN IF a.new_pod_name = << >>
         THEN Handled([a EXCEPT !.message = << "Please enter a new pod name" >>,
                                !.state = "Message"],
                      << >>)
         ELSE IF is_some(a.selected_pod)
         THEN LET res == copy_pod(a, a.selected_pod[1], a.new_pod_name, r)
                  shown == IF res.ret.ok
                           THEN res.app
                           ELSE [res.app EXCEPT
                                    !.message = << "Error copying pod: " >> \o res.ret.err,
                                    !.state = "Message"]
              IN  Handled([shown EXCEPT !.selected_pod = None,
                                        !.new_pod_name = << >>],
                          res.calls)
         ELSE Handled(a, << >>)
    ELSE IF key_code.code = "Char"
    THEN Handled([a EXCEPT !.new_pod_name = Append(@, key_code.ch)], << >>)
    ELSE IF key_code = Key("Backspace")
    THEN Handled([a EXCEPT !.new_pod_name = pop(@)], << >>)
    ELSE IF key_code = Key("Esc")
    THEN Handled([a EXCEPT !.state = "PodSelection"], << >>)
    ELSE Handled(a, << >>)

\* handle_namespace_selection whose Up wraps from the first item to the last
handle_namespace_selection_wrap_up(a, key_code) ==
    LET selected == unwrap_or(a.namespace_list_state, 0)
        last_idx == saturating_sub(Len(a.namespaces), 1)
    IN  IF IsUp(key_code)
        THEN Handled([a EXCEPT !.namespace_list_state =
                              Some(IF selected > 0 THEN selected - 1 ELSE last_idx)],
                     << >>)
        ELSE IF IsDown(key_code)
        THEN Handled([a EXCEPT !.namespace_list_state =
                              Some(IF selected < last_idx THEN selected + 1 ELSE 0)],
                     << >>)
        ELSE IF key_code = Key("Enter")
        THEN LET ns == get(a.namespaces, selected)
             IN  IF is_some(ns)
                 THEN Handled([a EXCEPT !.selected_namespace = Some(ns[1]),
                                        !.state = "MainMenu"],
                              << >>)
                 ELSE Handled(a, << >>)
        ELSE IF key_code = Key("Esc")
        THEN Handled([a EXCEPT !.state = "MainMenu"], << >>)
        ELSE Handled(a, << >>)

handle_namespace_selection(a, key_code) ==
    LET selected == unwrap_or(a.namespace_list_state, 0)
        last_idx == saturating_sub(Len(a.namespaces), 1)
    IN  IF IsUp(key_code)
        THEN Handled([a EXCEPT !.namespace_list_state = Some(saturating_sub(selected, 1))], << >>)
        ELSE IF IsDown(key_code)
        THEN Handled([a EXCEPT !.namespace_list_state =
                              Some(IF selected < last_idx THEN selected + 1 ELSE 0)],
                     << >>)
        ELSE IF key_code = Key("Enter")
        THEN LET ns == get(a.namespaces, selected)
             IN  IF is_some(ns)
                 THEN Handled([a EXCEPT !.selected_namespace = Some(ns[1]),
                                        !.state = "MainMenu"],
                              << >>)
                 ELSE Handled(a, << >>)
        ELSE IF key_code = Key("Esc")
        THEN Handled([a EXCEPT !.state = "MainMenu"], << >>)
        ELSE Handled(a, << >>)

handle_context_selection(a, key_code, r) ==
    LET selected == unwrap_or(a.context_list_state, 0)
        last_idx == saturating_sub(Len(a.contexts), 1)
    IN  IF IsUp(key_code)
        THEN Handled([a EXCEPT !.context_list_state = Some(saturating_sub(selected, 1))], << >>)
        ELSE IF IsDown(key_code)
        THEN Handled([a EXCEPT !.context_list_state =
                              Some(IF selected < last_idx THEN selected + 1 ELSE 0)],
                     << >>)
        ELSE IF key_code = Key("Enter")
        THEN LET ctx == get(a.contexts, selected)
             IN  IF is_some(ctx)
                 THEN LET res == switch_context(a, ctx[1], r)
                      IN  IF res.ret.ok
                          THEN Handled([res.app EXCEPT !.state = "MainMenu"], res.calls)
                          ELSE Handled([res.app EXCEPT
                                           !.message = << "Error switching context: " >>
                                                           \o res.ret.err,
                                           !.state = "Message"],
                                       res.calls)
                 ELSE Handled(a, << >>)
        ELSE IF key_code = Key("Esc")
        THEN Handled([a EXCEPT !.state = "MainMenu"], << >>)
        ELSE Handled(a, << >>)

----------------------------------------------------------------------------
(* src/ui.rs run_app: one iteration of the event loop per step *)

\* the results kubectl can give to the command a key may run on a screen
MainMenuResults(a, k) ==
    IF IsUp(k) \/ IsDown(k) THEN OutputResults
    ELSE IF k \in {Key("Right"), Key("Enter")}
    THEN CASE unwrap_or(a.list_state, 0) = 0 -> ContextListResults
           [] unwrap_or(a.list_state, 0) = 1 -> NamespaceListResults
           [] OTHER -> PodListResults
    ELSE NoCommand
ContextSelectionResults(k) == IF k = Key("Enter") THEN StatusResults ELSE NoCommand
ExecPodSelectionResults(k) == IF k = Key("Enter") THEN SessionResults ELSE NoCommand
CopyPodNameResults(k) == IF k = Key("Enter") THEN SessionResults ELSE NoCommand

\* run_app without the quit check: every key goes to the screen's handler
run_app_no_quit(a, k, r) ==
    LET h == CASE a.state = "MainMenu" -> handle_main_menu(a, k, r)
               [] a.state = "NamespaceSelection" -> handle_namespace_selection(a, k)
               [] a.state = "ContextSelection" -> handle_context_selection(a, k, r)
               [] a.state = "ExecPodSelection" -> handle_exec_pod_selection(a, k, r)
               [] a.state = "PodSelection" -> handle_copy_pod_selection(a, k)
               [] a.state = "CopyPodNameInput" -> handle_copy_pod_name(a, k, r)
               [] a.state \in {"Message", "ShowOutput"} ->
                      Handled([a EXCEPT !.state = "MainMenu"], << >>)
    IN  [app |-> h.app, calls |-> h.calls, exit |-> "running"]

\* run_app that wipes the message and the output once they are dismissed
run_app_dismiss_clears(a, k, r) ==
    IF k = Char("q")
    THEN [app |-> a, calls |-> << >>, exit |-> "quit"]
    ELSE LET h == CASE a.state = "MainMenu" -> handle_main_menu(a, k, r)
                    [] a.state = "NamespaceSelection" -> handle_namespace_selection(a, k)
                    [] a.state = "ContextSelection" -> handle_context_selection(a, k, r)
                    [] a.state = "ExecPodSelection" -> handle_exec_pod_selection(a, k, r)
                    [] a.state = "PodSelection" -> handle_copy_pod_selection(a, k)
                    [] a.state = "CopyPodNameInput" -> handle_copy_pod_name(a, k, r)
                    [] a.state \in {"Message", "ShowOutput"} ->
                           Handled([a EXCEPT !.state = "MainMenu",
                                             !.message = << >>,
                                             !.output = << >>],
                                   << >>)
         IN  [app |-> h.app, calls |-> h.calls, exit |-> "running"]

\* ui.rs:18-34: one key event.  The quit key returns before any handler runs
run_app(a, k, r) ==
    IF k = Char("q")
    THEN [app |-> a, calls |-> << >>, exit |-> "quit"]
    ELSE LET h == CASE a.state = "MainMenu" -> handle_main_menu(a, k, r)
                    [] a.state = "NamespaceSelection" -> handle_namespace_selection(a, k)
                    [] a.state = "ContextSelection" -> handle_context_selection(a, k, r)
                    [] a.state = "ExecPodSelection" -> handle_exec_pod_selection(a, k, r)
                    [] a.state = "PodSelection" -> handle_copy_pod_selection(a, k)
                    [] a.state = "CopyPodNameInput" -> handle_copy_pod_name(a, k, r)
                    [] a.state \in {"Message", "ShowOutput"} ->
                           Handled([a EXCEPT !.state = "MainMenu"], << >>)
         IN  [app |-> h.app, calls |-> h.calls, exit |-> "running"]

\* the keys the model lets the user press on a screen: every key but the
\* quit key, and no more than MaxNameLen characters typed into the name field
Pressable(a) ==
    { k \in Keys \ {Char("q")} :
        (a.state = "CopyPodNameInput" /\ k.code = "Char")
            => Len(a.new_pod_name) < MaxNameLen }

Init ==
    /\ \E r \in CurrentContextResults : app = new(get_current_context(r))
    /\ event = [code |-> "Start", ch |-> ""]
    /\ calls = << >>
    /\ events = 0
    /\ exit = "running"

Running == exit = "running" /\ events < MaxEvents

KeyEvent(k, r) ==
    LET it == run_app(app, k, r)
    IN  /\ app' = it.app
        /\ event' = k
        /\ calls' = it.calls
        /\ events' = events + 1
        /\ exit' = it.exit

\* ui.rs:19-21
Quit ==
    /\ Running
    /\ \E r \in NoCommand : KeyEvent(Char("q"), r)

\* ui.rs:16,18: terminal.draw or event::read fails and `?` returns the error
IoFailure ==
    /\ Running
    /\ exit' = "io_error"
    /\ event' = [code |-> "Failed", ch |-> ""]
    /\ calls' = << >>
    /\ events' = events + 1
    /\ app' = app

\* ui.rs:18: an event that is not Event::Key (resize, mouse) is skipped
NonKeyEvent ==
    /\ Running
    /\ event' = [code |-> "NonKey", ch |-> ""]
    /\ calls' = << >>
    /\ events' = events + 1
    /\ UNCHANGED << app, exit >>

MainMenu ==
    /\ Running /\ app.state = "MainMenu"
    /\ \E k \in Pressable(app) : \E r \in MainMenuResults(app, k) : KeyEvent(k, r)

NamespaceSelection ==
    /\ Running /\ app.state = "NamespaceSelection"
    /\ \E k \in Pressable(app) : \E r \in NoCommand : KeyEvent(k, r)

ContextSelection ==
    /\ Running /\ app.state = "ContextSelection"
    /\ \E k \in Pressable(app) : \E r \in ContextSelectionResults(k) : KeyEvent(k, r)

ExecPodSelection ==
    /\ Running /\ app.state = "ExecPodSelection"
    /\ \E k \in Pressable(app) : \E r \in ExecPodSelectionResults(k) : KeyEvent(k, r)

PodSelection ==
    /\ Running /\ app.state = "PodSelection"
    /\ \E k \in Pressable(app) : \E r \in NoCommand : KeyEvent(k, r)

CopyPodNameInput ==
    /\ Running /\ app.state = "CopyPodNameInput"
    /\ \E k \in Pressable(app) : \E r \in CopyPodNameResults(k) : KeyEvent(k, r)

MessageOrShowOutput ==
    /\ Running /\ app.state \in {"Message", "ShowOutput"}
    /\ \E k \in Pressable(app) : \E r \in NoCommand : KeyEvent(k, r)

Next ==
    \/ Quit
    \/ IoFailure
    \/ NonKeyEvent
    \/ MainMenu
    \/ NamespaceSelection
    \/ ContextSelection
    \/ ExecPodSelection
    \/ PodSelection
    \/ CopyPodNameInput
    \/ MessageOrShowOutput

Spec == Init /\ [][Next]_vars

----------------------------------------------------------------------------
(* maybe_load_preview on its own: called with any index on any main-menu   *)
(* App, next to the Up/Down keys of handle_main_menu that call it          *)

IndexNames == << "0", "1", "2", "3" >>
IndexChanged(i) == [code |-> "IndexChanged", ch |-> IndexNames[i + 1]]

PreviewApps ==
    { [new(None) EXCEPT !.list_state = Some(c),
                        !.last_main_menu_index = l,
                        !.output = o,
                        !.selected_namespace = n] :
        c \in 0..(Len(Commands) - 1),
        l \in {None} \cup { Some(i) : i \in 0..(Len(Commands) - 1) },
        o \in {<< >>} \cup Stdouts \cup Stderrs,
        n \in {None} \cup { Some(x) : x \in Names } }

InitPreview ==
    /\ app \in PreviewApps
    /\ event = [code |-> "Start", ch |-> ""]
    /\ calls = << >>
    /\ events = 0
    /\ exit = "running"

OnIndexChanged ==
    /\ Running
    /\ \E i \in 0..(Len(Commands) - 1) : \E r \in OutputResults :
          LET h == maybe_load_preview(app, i, r)
          IN  /\ app' = h.app
              /\ event' = IndexChanged(i)
              /\ calls' = h.calls
              /\ events' = events + 1
              /\ exit' = exit

Navigate ==
    /\ Running
    /\ \E k \in { k \in Keys : IsUp(k) \/ IsDown(k) } : \E r \in OutputResults :
          KeyEvent(k, r)

NextPreview ==
    \/ OnIndexChanged
    \/ Navigate

SpecPreview == InitPreview /\ [][NextPreview]_vars

----------------------------------------------------------------------------
(* run_app met in the middle of a session: the loop of ui.rs:15-35 reads   *)
(* MaxStepsOn more events from an App that earlier events have left on the *)
(* main menu or on the namespace list, after namespaces, contexts and pods *)
(* may have been loaded and a namespace and a pod may have been picked     *)

\* a list and its cursor: never loaded, or loaded (app.rs:121-125, 139-143,
\* 160-164) and then moved over by Up and Down
NeverLoaded == [items |-> << >>, cursor |-> None]
LoadedLists ==
    { x \in { [items |-> l, cursor |-> Some(c)] :
                l \in Listings, c \in 0..saturating_sub(MaxItems, 1) } :
        x.cursor[1] <= saturating_sub(Len(x.items), 1) }
\* the longest listing with the cursor on its last item
LastOfAll ==
    [items |-> SubSeq(Universe, 1, MaxItems), cursor |-> Some(MaxItems - 1)]

\* selected_pod is Some only after load_pods has succeeded (ui.rs:317-319),
\* selected_namespace only after load_namespaces has (ui.rs:378-380); the
\* namespace list screen is entered from command 1 after load_namespaces
\* (ui.rs:210, 252-259); last_main_menu_index is the index Up or Down left
MidSessionApps ==
    { [new(IF cs = NeverLoaded THEN None ELSE Some(Universe[1])) EXCEPT
                       !.state = st,
                       !.list_state = Some(c),
                       !.last_main_menu_index = Some(c),
                       !.namespaces = ns.items,
                       !.namespace_list_state = ns.cursor,
                       !.contexts = cs.items,
                       !.context_list_state = cs.cursor,
                       !.pods = ps.items,
                       !.pod_list_state = ps.cursor,
                       !.selected_namespace = n,
                       !.selected_pod = p] :
        st \in {"MainMenu", "NamespaceSelection"},
        c \in 0..(Len(Commands) - 1),
        ns \in {NeverLoaded} \cup LoadedLists,
        cs \in {NeverLoaded, LastOfAll},
        ps \in {NeverLoaded, LastOfAll},
        n \in {None} \cup { Some(x) : x \in Names },
        p \in {None, Some(Universe[MaxItems])} }

InitMidSession ==
    /\ app \in { a \in MidSessionApps :
                    /\ (a.state = "NamespaceSelection")
                           => (a.list_state = Some(1) /\ is_some(a.namespace_list_state))
                    /\ is_some(a.selected_namespace) => is_some(a.namespace_list_state)
                    /\ is_some(a.selected_pod) => is_some(a.pod_list_state) }
    /\ event = [code |-> "Start", ch |-> ""]
    /\ calls = << >>
    /\ events = MaxEvents - MaxStepsOn
    /\ exit = "running"

SpecMidSession == InitMidSession /\ [][Next]_vars

----------------------------------------------------------------------------
(* Properties.  app, event and calls after a step are the App the handler  *)
(* left, the event it handled and the commands it ran; in an action        *)
(* formula the unprimed app is the App the handler was given.              *)

\* the commands of the last event that ran operation op
CallsOf(op) == { i \in 1..Len(calls) : calls[i].op = op }
Escalated == {"list_contexts", "list_namespaces", "list_pods", "switch_context"}
Captured == {"exec_interactive", "copy_pod"}

\* C1 as stated: when one of list_contexts, list_namespaces, list_pods,
\* switch_context, exec_interactive, copy_pod is run by a key event and
\* exits non-zero, the screen after the event is Message.
C1_NonZeroExitShowsMessage ==
    \A i \in 1..Len(calls) :
        (calls[i].op \in Escalated \cup Captured /\ calls[i].outcome = "nonzero")
            => app.state = "Message"

\* C1 amended: a command that returns an error to the handler (a non-zero
\* exit of list_contexts, list_namespaces, list_pods or switch_context; a
\* failure to start kubectl for any of the six) leaves the screen Message.
\* A non-zero exit of exec_interactive or copy_pod is not an error: it
\* leaves the screen ShowOutput with the command's stderr as output.
C1_ErrorsShowMessage ==
    \A i \in 1..Len(calls) :
        /\ (calls[i].op \in Escalated /\ calls[i].outcome # "ok")
               => app.state = "Message"
        /\ (calls[i].op \in Captured /\ calls[i].outcome = "io_error")
               => app.state = "Message"
        /\ (calls[i].op \in Captured /\ calls[i].outcome = "nonzero")
               => (/\ app.state = "ShowOutput"
                   /\ app.output = calls[i].stderr
                   /\ app.output \in Stderrs)

\* an exec that exited non-zero was shown as output
C1_Witness ==
    /\ Len(calls) = 1
    /\ calls[1].op = "exec_interactive"
    /\ calls[1].outcome = "nonzero"
    /\ app.state = "ShowOutput"

\* C2: on CopyPodNameInput, Enter with an empty new_pod_name leaves the
\* screen Message with the message "Please enter a new pod name" and runs
\* no command.
C2_EmptyNameRejected ==
    [][ (/\ app.state = "CopyPodNameInput"
         /\ app.new_pod_name = << >>
         /\ event' = Key("Enter"))
        => (/\ app'.state = "Message"
            /\ app'.message = << "Please enter a new pod name" >>
            /\ calls' = << >>) ]_vars

\* Enter was pressed on the name field and the validation message is shown
C2_Witness ==
    /\ event = Key("Enter")
    /\ app.state = "Message"
    /\ app.message = << "Please enter a new pod name" >>
    /\ is_some(app.selected_pod)
    /\ calls = << >>

\* C3: maybe_load_preview called with the index it last previewed runs no
\* command and leaves output as it was; of two consecutive calls with index
\* 2 the first (made with another index last previewed) runs the preview
\* once and the second runs nothing; an Up key repeated on the main menu at
\* index 0 leaves output as it was.
C3_PreviewDebounced ==
    [][ /\ \A i \in 0..(Len(Commands) - 1) :
              (event' = IndexChanged(i) /\ app.last_main_menu_index = Some(i))
                  => (calls' = << >> /\ app'.output = app.output)
        /\ (event' = IndexChanged(2) /\ app.last_main_menu_index # Some(2))
              => (Len(calls') = 1 /\ calls'[1].op = "preview_pods")
        /\ (event = IndexChanged(2) /\ event' = IndexChanged(2))
              => (calls' = << >> /\ app'.output = app.output)
        /\ (IsUp(event) /\ IsUp(event') /\ app.list_state = Some(0))
              => (calls' = << >> /\ app'.output = app.output) ]_vars

\* a call with index 2 ran nothing and kept the output shown
C3_Witness ==
    /\ event = IndexChanged(2)
    /\ calls = << >>
    /\ app.last_main_menu_index = Some(2)
    /\ app.output # << >>

\* the last event ran operation op and it succeeded
Loaded(op) == \E i \in CallsOf(op) : calls[i].outcome = "ok"

\* C4 as stated: a successful load of namespaces, contexts or pods leaves
\* that list's cursor Some(0) when the new list is not empty and None when
\* it is empty.
C4_CursorNoneWhenEmpty ==
    /\ Loaded("list_namespaces")
          => app.namespace_list_state = IF app.namespaces # << >> THEN Some(0) ELSE None
    /\ Loaded("list_contexts")
          => app.context_list_state = IF app.contexts # << >> THEN Some(0) ELSE None
    /\ Loaded("list_pods")
          => app.pod_list_state = IF app.pods # << >> THEN Some(0) ELSE None

\* C4 amended: a successful load of namespaces, contexts or pods leaves that
\* list's cursor Some(0) whether the new list is empty or not, whatever the
\* cursor was before the load.
C4_LoadResetsCursor ==
    /\ Loaded("list_namespaces") => app.namespace_list_state = Some(0)
    /\ Loaded("list_contexts") => app.context_list_state = Some(0)
    /\ Loaded("list_pods") => app.pod_list_state = Some(0)

\* an empty listing was loaded and the cursor is Some(0)
C4_Witness ==
    /\ Loaded("list_namespaces")
    /\ app.namespaces = << >>
    /\ app.namespace_list_state = Some(0)

RefUp(i) == IF i - 1 > 0 THEN i - 1 ELSE 0
RefDown(i, n) == (i + 1) % n

\* on `screen`, over a list of n > 0 items with the cursor `before` on one of
\* them, Up/k and Down/j leave the cursor `after` where the reference says
MovesAsReference(screen, n, before, after) ==
    (/\ app.state = screen
     /\ n > 0
     /\ before # None
     /\ unwrap_or(before, 0) \in 0..(n - 1))
    => /\ IsUp(event') => after = Some(RefUp(before[1]))
       /\ IsDown(event') => after = Some(RefDown(before[1], n))

\* C5: on the main menu and the four pickers, over a list of n > 0 items
\* with the cursor on item i, Up and 'k' move the cursor to max(i-1, 0) and
\* Down and 'j' move it to (i+1) mod n.
C5_CursorMoves ==
    [][ /\ MovesAsReference("MainMenu", Len(app.commands),
                            app.list_state, app'.list_state)
        /\ MovesAsReference("NamespaceSelection", Len(app.namespaces),
                            app.namespace_list_state, app'.namespace_list_state)
        /\ MovesAsReference("ContextSelection", Len(app.contexts),
                            app.context_list_state, app'.context_list_state)
        /\ MovesAsReference("ExecPodSelection", Len(app.pods),
                            app.pod_list_state, app'.pod_list_state)
        /\ MovesAsReference("PodSelection", Len(app.pods),
                            app.pod_list_state, app'.pod_list_state) ]_vars

\* 'k' on the first of two namespaces left the cursor on it
C5_Witness ==
    /\ event = Char("k")
    /\ app.state = "NamespaceSelection"
    /\ Len(app.namespaces) = 2
    /\ app.namespace_list_state = Some(0)

MenuOp == << "list_contexts", "list_namespaces", "list_pods", "list_pods" >>
MenuScreen ==
    << "ContextSelection", "NamespaceSelection", "ExecPodSelection", "PodSelection" >>
MenuList(i, a) ==
    CASE i = 0 -> a.contexts [] i = 1 -> a.namespaces [] OTHER -> a.pods
MenuCursor(i, a) ==
    CASE i = 0 -> a.context_list_state
      [] i = 1 -> a.namespace_list_state
      [] OTHER -> a.pod_list_state
Printed(i, l) == IF i = 0 THEN name_stdout(l) ELSE jsonpath_stdout(l)

\* C6: on the main menu, Enter or Right with the cursor on command 0, 1, 2, 3
\* runs list_contexts, list_namespaces, list_pods, list_pods; when it
\* succeeds the screen is the matching picker, the picker's list is the
\* listing kubectl printed and its cursor is Some(0); when it fails the
\* screen is Message.
C6_MenuDispatch ==
    [][ \A i \in 0..(Len(Commands) - 1) :
          (/\ app.state = "MainMenu"
           /\ app.list_state = Some(i)
           /\ event' \in {Key("Enter"), Key("Right")})
          => /\ Len(calls') = 1
             /\ calls'[1].op = MenuOp[i + 1]
             /\ calls'[1].outcome = "ok"
                   => /\ app'.state = MenuScreen[i + 1]
                      /\ \E l \in Listings :
                            /\ calls'[1].stdout = Printed(i, l)
                            /\ MenuList(i, app') = l
                      /\ MenuCursor(i, app') = Some(0)
             /\ calls'[1].outcome # "ok" => app'.state = "Message" ]_vars

\* Enter on "Choose Namespace" loaded two namespaces into the picker
C6_Witness ==
    /\ event = Key("Enter")
    /\ app.state = "NamespaceSelection"
    /\ Loaded("list_namespaces")
    /\ app.namespaces = SubSeq(Universe, 1, 2)
    /\ app.namespace_list_state = Some(0)

UsesNamespace == {"list_pods", "preview_pods", "exec_interactive", "copy_pod"}

\* C7: on NamespaceSelection, over a non-empty list with the cursor on item
\* i, Enter sets selected_namespace to that item and the screen to MainMenu,
\* runs no command and leaves selected_context, selected_pod and the context
\* and pod lists as they were; every list_pods, preview, exec and copy
\* command is run in the selected namespace, or in the default namespace
\* when none is selected.
C7_NamespaceSelected ==
    [][ /\ (/\ app.state = "NamespaceSelection"
            /\ app.namespaces # << >>
            /\ app.namespace_list_state # None
            /\ unwrap_or(app.namespace_list_state, 0) < Len(app.namespaces)
            /\ event' = Key("Enter"))
           => /\ app'.selected_namespace =
                     Some(app.namespaces[app.namespace_list_state[1] + 1])
              /\ app'.state = "MainMenu"
              /\ calls' = << >>
              /\ app'.selected_context = app.selected_context
              /\ app'.selected_pod = app.selected_pod
              /\ app'.contexts = app.contexts
              /\ app'.context_list_state = app.context_list_state
              /\ app'.pods = app.pods
              /\ app'.pod_list_state = app.pod_list_state
        /\ \A j \in 1..Len(calls') :
              calls'[j].op \in UsesNamespace
                  => calls'[j].args[1] = unwrap_or(app.selected_namespace, DefaultNamespace)
      ]_vars

\* with the second namespace selected, a pod was copied in that namespace
C7_Witness ==
    /\ app.selected_namespace = Some(Universe[2])
    /\ Len(calls) = 1
    /\ calls[1].op = "copy_pod"
    /\ calls[1].args[1] = Universe[2]
    /\ calls[1].outcome = "ok"
    /\ app.state = "ShowOutput"

\* Enter on the namespace list, as the first event read, selected the second
\* namespace while a pod was selected and contexts and pods were loaded
C7_SelectionReached ==
    /\ events = MaxEvents - MaxStepsOn + 1
    /\ event = Key("Enter")
    /\ calls = << >>
    /\ app.state = "MainMenu"
    /\ app.selected_namespace = Some(Universe[2])
    /\ is_some(app.selected_pod)
    /\ is_some(app.selected_context)
    /\ app.contexts # << >>
    /\ app.context_list_state = Some(MaxItems - 1)
    /\ app.pods # << >>
    /\ app.pod_list_state = Some(MaxItems - 1)

\* with the second namespace selected, a shell was opened in a pod of it
C7_ExecReached ==
    /\ app.selected_namespace = Some(Universe[2])
    /\ Len(calls) = 1
    /\ calls[1].op = "exec_interactive"
    /\ calls[1].args[1] = Universe[2]

\* C8: on PodSelection, over a non-empty pod list with the cursor on item i,
\* Enter sets selected_pod to that pod, empties new_pod_name, sets the screen
\* to CopyPodNameInput and runs no command; whenever the screen is
\* CopyPodNameInput, selected_pod is Some.
C8_CopyPodSelected ==
    [][ /\ (/\ app.state = "PodSelection"
            /\ app.pods # << >>
            /\ app.pod_list_state # None
            /\ unwrap_or(app.pod_list_state, 0) < Len(app.pods)
            /\ event' = Key("Enter"))
           => /\ app'.selected_pod = Some(app.pods[app.pod_list_state[1] + 1])
              /\ app'.new_pod_name = << >>
              /\ app'.state = "CopyPodNameInput"
              /\ calls' = << >>
        /\ app'.state = "CopyPodNameInput" => is_some(app'.selected_pod) ]_vars

\* the second pod was picked for copying and the name field is empty
C8_Witness ==
    /\ event = Key("Enter")
    /\ app.state = "CopyPodNameInput"
    /\ app.selected_pod = Some(Universe[2])
    /\ app.new_pod_name = << >>
    /\ calls = << >>

\* C9: on CopyPodNameInput, Enter with a non-empty new_pod_name runs
\* copy_pod once, with the current namespace, selected_pod and new_pod_name;
\* afterwards selected_pod is None and new_pod_name is empty whether the
\* command succeeded or not, and on success the screen is ShowOutput.
C9_CopySubmitted ==
    [][ (/\ app.state = "CopyPodNameInput"
         /\ app.new_pod_name # << >>
         /\ event' = Key("Enter"))
        => /\ Len(calls') = 1
           /\ calls'[1].op = "copy_pod"
           /\ calls'[1].args =
                  << current_namespace(app), unwrap_or(app.selected_pod, << >>),
                     app.new_pod_name >>
           /\ is_some(app.selected_pod)
           /\ app'.selected_pod = None
           /\ app'.new_pod_name = << >>
           /\ calls'[1].outcome = "ok" => app'.state = "ShowOutput" ]_vars

\* a copy that could not be started was reported and both fields cleared
C9_Witness ==
    /\ event = Key("Enter")
    /\ Len(calls) = 1
    /\ calls[1].op = "copy_pod"
    /\ calls[1].outcome = "io_error"
    /\ app.state = "Message"
    /\ app.selected_pod = None
    /\ app.new_pod_name = << >>

\* C10: the quit key ends the session on every screen, runs no command and
\* leaves the App as it was; after the session has ended no event is
\* handled; a session ends only by the quit key or by a failure to draw or to
\* read an event, never by another key or a failed command.
C10_QuitEndsSession ==
    [][ /\ (exit = "running" /\ event' = Char("q"))
           => (exit' = "quit" /\ app' = app /\ calls' = << >>)
        /\ exit # "running" => UNCHANGED vars
        /\ (exit = "running" /\ exit' # "running")
           => /\ event' = Char("q") \/ event'.code = "Failed"
              /\ calls' = << >>
              /\ app' = app ]_vars

\* the session was quit on the name field with text typed into it
C10_Witness ==
    /\ exit = "quit"
    /\ event = Char("q")
    /\ app.state = "CopyPodNameInput"
    /\ app.new_pod_name # << >>

\* C11: an Up or Down key on MainMenu leaves the screen MainMenu and leaves
\* message as it was, however the preview it may run ends.  A preview that
\* fails changes output only: kubectl's stderr when it exits non-zero, "Error
\* listing pods: " and the error when it cannot be started.
C11_PreviewFailureNonFatal ==
    [][ (/\ app.state = "MainMenu"
         /\ (IsUp(event') \/ IsDown(event')))
        => (/\ app'.state = "MainMenu"
            /\ app'.message = app.message
            /\ \A i \in 1..Len(calls') :
                  /\ calls'[i].op = "preview_pods"
                  /\ (calls'[i].outcome = "nonzero")
                         => app' = [app EXCEPT !.list_state = app'.list_state,
                                               !.last_main_menu_index = Some(2),
                                               !.output = calls'[i].stderr]
                  /\ (calls'[i].outcome = "io_error")
                         => \E e \in IoErrors :
                              app' = [app EXCEPT
                                         !.list_state = app'.list_state,
                                         !.last_main_menu_index = Some(2),
                                         !.output = << "Error listing pods: " >> \o e]) ]_vars

\* a preview that could not be started, after an earlier message was shown
C11_Witness ==
    /\ IsDown(event)
    /\ Len(calls) = 1
    /\ calls[1].op = "preview_pods"
    /\ calls[1].outcome = "io_error"
    /\ app.state = "MainMenu"
    /\ app.message # << >>
    /\ \E e \in IoErrors : app.output = << "Error listing pods: " >> \o e

\* the four selection screens and, for each, its list and its cursor
Pickers == {"NamespaceSelection", "ContextSelection", "ExecPodSelection", "PodSelection"}
PickerList(a) ==
    CASE a.state = "NamespaceSelection" -> a.namespaces
      [] a.state = "ContextSelection" -> a.contexts
      [] OTHER -> a.pods
PickerCursor(a) ==
    CASE a.state = "NamespaceSelection" -> a.namespace_list_state
      [] a.state = "ContextSelection" -> a.context_list_state
      [] OTHER -> a.pod_list_state
\* what kubectl can answer to the command Enter runs on a selection screen
EnterResults(a) ==
    CASE a.state = "ContextSelection" -> StatusResults
      [] a.state = "ExecPodSelection" -> SessionResults
      [] OTHER -> NoCommand

\* C12: on each of the four selection screens the Right key does what Enter
\* does: the App and the commands run by a Right key event are those some
\* Enter key event gives from the same App.
C12_RightSelectsLikeEnter ==
    [][ (/\ app.state \in Pickers
         /\ event' = Key("Right"))
        => \E r \in EnterResults(app) :
              LET it == run_app(app, Key("Enter"), r)
              IN  /\ app' = it.app
                  /\ calls' = it.calls ]_vars

\* C13: on ContextSelection with a non-empty list and the cursor on item i,
\* Enter runs switch_context(contexts[i]) once.  When it succeeds
\* selected_context is Some(contexts[i]) and the screen is MainMenu; when it
\* fails selected_context is as before, message is "Error switching context: "
\* and the error, and the screen is Message.  No other key event on any
\* screen changes selected_context.
C13_ContextSwitched ==
    [][ /\ (/\ app.state = "ContextSelection"
            /\ event' = Key("Enter")
            /\ app.contexts # << >>
            /\ is_some(app.context_list_state)
            /\ app.context_list_state[1] < Len(app.contexts))
           => LET context == app.contexts[app.context_list_state[1] + 1]
              IN  /\ Len(calls') = 1
                  /\ calls'[1].op = "switch_context"
                  /\ calls'[1].args = << context >>
                  /\ (calls'[1].outcome = "ok")
                        => app' = [app EXCEPT !.selected_context = Some(context),
                                              !.state = "MainMenu"]
                  /\ (calls'[1].outcome # "ok")
                        => \E e \in IoErrors \cup { << "Failed to switch context" >> } :
                              app' = [app EXCEPT
                                         !.message = << "Error switching context: " >> \o e,
                                         !.state = "Message"]
        /\ (app'.selected_context # app.selected_context)
           => (/\ app.state = "ContextSelection"
               /\ event' = Key("Enter")
               /\ Len(calls') = 1
               /\ calls'[1].op = "switch_context"
               /\ calls'[1].outcome = "ok") ]_vars

\* a switch to another context failed and the earlier context was kept
C13_Witness ==
    /\ event = Key("Enter")
    /\ Len(calls) = 1
    /\ calls[1].op = "switch_context"
    /\ calls[1].outcome = "nonzero"
    /\ app.state = "Message"
    /\ app.message = << "Error switching context: ", "Failed to switch context" >>
    /\ is_some(app.selected_context)
    /\ app.selected_context # Some(calls[1].args[1])
    /\ app.context_list_state = Some(1)

\* C14: Esc on a selection screen leaves the screen MainMenu, Esc on
\* CopyPodNameInput leaves the screen PodSelection, Esc on MainMenu does
\* nothing.  Esc runs no command and changes no field of the App but state.
C14_EscapeGoesBack ==
    [][ (event' = Key("Esc"))
        => (/\ calls' = << >>
            /\ (app.state \in Pickers)
                  => app' = [app EXCEPT !.state = "MainMenu"]
            /\ (app.state = "CopyPodNameInput")
                  => app' = [app EXCEPT !.state = "PodSelection"]
            /\ (app.state = "MainMenu")
                  => app' = app) ]_vars

\* Esc went back from the name input to the pod list, with the pod, the
\* typed name and the list cursor kept
C14_Witness ==
    /\ event = Key("Esc")
    /\ calls = << >>
    /\ app.state = "PodSelection"
    /\ is_some(app.selected_pod)
    /\ app.new_pod_name # << >>
    /\ app.pod_list_state = Some(1)

\* C15: on Message and on ShowOutput every key but the quit key leaves the
\* screen MainMenu, runs no command and changes no other field of the App:
\* message, output, the lists, their cursors, the selections and
\* new_pod_name are as before.
C15_AnyKeyDismisses ==
    [][ (/\ app.state \in {"Message", "ShowOutput"}
         /\ event' \in Keys \ {Char("q")})
        => (/\ app' = [app EXCEPT !.state = "MainMenu"]
            /\ calls' = << >>
            /\ exit' = "running") ]_vars

\* Enter dismissed a message: only from Message or ShowOutput does Enter lead
\* to MainMenu with no command run and no namespace selected
C15_Witness ==
    /\ event = Key("Enter")
    /\ calls = << >>
    /\ app.state = "MainMenu"
    /\ app.selected_namespace = None
    /\ app.message # << >>
    /\ app.output # << >>

\* C16 as stated: a key event whose command (list_contexts, list_namespaces,
\* list_pods, switch_context, exec_interactive, copy_pod) fails leaves the
\* four lists, their cursors, selected_namespace, selected_context and
\* selected_pod as they were.
C16_FailureKeepsSelections ==
    [][ (\E i \in 1..Len(calls') :
            /\ calls'[i].op \in Escalated \cup Captured
            /\ calls'[i].outcome # "ok")
        => (/\ app'.namespaces = app.namespaces
            /\ app'.namespace_list_state = app.namespace_list_state
            /\ app'.contexts = app.contexts
            /\ app'.context_list_state = app.context_list_state
            /\ app'.pods = app.pods
            /\ app'.pod_list_state = app.pod_list_state
            /\ app'.commands = app.commands
            /\ app'.list_state = app.list_state
            /\ app'.selected_namespace = app.selected_namespace
            /\ app'.selected_context = app.selected_context
            /\ app'.selected_pod = app.selected_pod) ]_vars

\* C16 amended: a key event whose command fails (exits non-zero or cannot be
\* started) changes state and message only, with two exceptions: a non-zero
\* exit of exec_interactive or copy_pod changes state and output instead, and
\* a failed copy_pod also sets selected_pod to None and empties new_pod_name.
\* The lists, their cursors, selected_namespace and selected_context are as
\* before in every case.
C16_FailureFrame ==
    [][ \A i \in 1..Len(calls') :
          (/\ calls'[i].op \in Escalated \cup Captured
           /\ calls'[i].outcome # "ok")
          => LET base == IF calls'[i].op = "copy_pod"
                         THEN [app EXCEPT !.selected_pod = None,
                                          !.new_pod_name = << >>]
                         ELSE app
             IN  IF calls'[i].op \in Captured /\ calls'[i].outcome = "nonzero"
                 THEN app' = [base EXCEPT !.state = "ShowOutput",
                                          !.output = calls'[i].stderr]
                 ELSE /\ app' = [base EXCEPT !.state = "Message",
                                             !.message = app'.message]
                      /\ app'.message # << >> ]_vars

\* a copy that could not be started: the pod list, its cursor and the
\* context are kept, the selected pod and the typed name are not
C16_Witness ==
    /\ Len(calls) = 1
    /\ calls[1].op = "copy_pod"
    /\ calls[1].outcome = "io_error"
    /\ app.state = "Message"
    /\ app.selected_pod = None
    /\ app.new_pod_name = << >>
    /\ app.pods # << >>
    /\ app.pod_list_state = Some(0)
    /\ is_some(app.selected_context)

\* text t occurs in text s
Contains(s, t) ==
    \E i \in 1..(Len(s) - Len(t) + 1) : SubSeq(s, i, i + Len(t) - 1) = t

\* C17: after a key event whose list_contexts, list_namespaces, list_pods or
\* switch_context exited non-zero, the screen is Message and message contains
\* what kubectl wrote on stderr, unmodified.
C17_MessageCarriesStderr ==
    \A i \in 1..Len(calls) :
        (calls[i].op \in Escalated /\ calls[i].outcome = "nonzero")
            => (/\ app.state = "Message"
                /\ calls[i].stderr # << >>
                /\ Contains(app.message, calls[i].stderr))

\* the cursor c is on an item of the list l
OnItem(c, l) == is_some(c) /\ c[1] \in 0..(Len(l) - 1)

\* C18: in every reachable state the cursor of each non-empty list
\* (namespaces, contexts, pods, the main menu) is on one of its items; the
\* main-menu cursor is always one of 0..3, the indices handle_main_menu
\* dispatches on.
C18_CursorsInRange ==
    /\ (app.namespaces # << >>) => OnItem(app.namespace_list_state, app.namespaces)
    /\ (app.contexts # << >>) => OnItem(app.context_list_state, app.contexts)
    /\ (app.pods # << >>) => OnItem(app.pod_list_state, app.pods)
    /\ Len(app.commands) = 4
    /\ OnItem(app.list_state, app.commands)

\* Down moved the cursor to the last pod of a list of MaxItems pods
C18_Witness ==
    /\ IsDown(event)
    /\ app.state = "ExecPodSelection"
    /\ Len(app.pods) = MaxItems
    /\ app.pod_list_state = Some(MaxItems - 1)
    /\ app.list_state = Some(2)

\* the command that fills the list of a selection screen
PickerOp(screen) ==
    CASE screen = "ContextSelection" -> "list_contexts"
      [] screen = "NamespaceSelection" -> "list_namespaces"
      [] OTHER -> "list_pods"
\* the step ran the list command of the screen it ends on, the command
\* succeeded, the screen's list is what it printed and its cursor is Some(0)
EntersFresh ==
    /\ Len(calls') = 1
    /\ calls'[1].op = PickerOp(app'.state)
    /\ calls'[1].outcome = "ok"
    /\ \E l \in Listings :
          /\ calls'[1].stdout = IF app'.state = "ContextSelection"
                                THEN name_stdout(l)
                                ELSE jsonpath_stdout(l)
          /\ PickerList(app') = l
    /\ PickerCursor(app') = Some(0)

\* C19 as stated: every key event that changes the screen to a selection
\* screen from another screen runs, in that event, a successful list command
\* that replaces the screen's list and resets its cursor.
C19_PickerEntryReloads ==
    [][ (/\ app'.state \in Pickers
         /\ app.state # app'.state)
        => EntersFresh ]_vars

\* C19 amended: a key event that changes the screen to a selection screen
\* from another screen is either Enter or Right on MainMenu, which runs a
\* successful list command that replaces the screen's list and resets its
\* cursor, or Esc on CopyPodNameInput, which runs no command and shows
\* PodSelection with the pods and the cursor as they were left.
C19_PickerEntryReloadsOrResumes ==
    [][ (/\ app'.state \in Pickers
         /\ app.state # app'.state)
        => \/ /\ app.state = "MainMenu"
              /\ event' \in {Key("Enter"), Key("Right")}
              /\ EntersFresh
           \/ /\ app.state = "CopyPodNameInput"
              /\ event' = Key("Esc")
              /\ app'.state = "PodSelection"
              /\ calls' = << >>
              /\ app'.pods = app.pods
              /\ app'.pod_list_state = app.pod_list_state ]_vars

\* Esc on the name input showed the pod list again with the cursor where it
\* was left, on the second pod
C19_Witness ==
    /\ event = Key("Esc")
    /\ calls = << >>
    /\ app.state = "PodSelection"
    /\ Len(app.pods) = 2
    /\ app.pod_list_state = Some(1)
    /\ app.selected_pod = Some(app.pods[2])

\* C20: on a selection screen whose list is empty, Enter, Up, Down and every
\* other key but Esc and the quit key run no command and leave the App as it
\* was; Esc leaves the screen MainMenu and changes nothing else.
C20_EmptyListNoOp ==
    [][ (/\ app.state \in Pickers
         /\ PickerList(app) = << >>
         /\ event' \in Keys \ {Char("q")})
        => (/\ calls' = << >>
            /\ app' = IF event' = Key("Esc")
                      THEN [app EXCEPT !.state = "MainMenu"]
                      ELSE app) ]_vars

\* Enter on the exec pod list when list_pods had found no pod
C20_Witness ==
    /\ event = Key("Enter")
    /\ calls = << >>
    /\ app.state = "ExecPodSelection"
    /\ app.pods = << >>
    /\ app.pod_list_state = Some(0)

\* the texts maybe_load_preview can leave in output: what `kubectl get pods`
\* wrote on stdout or on stderr, or "Error listing pods: " and the error
PreviewTexts ==
    Stdouts \cup Stderrs \cup { << "Error listing pods: " >> \o e : e \in IoErrors }

\* C21: whenever the screen is MainMenu, the main-menu cursor is on "Pods"
\* (index 2) and output is not empty, output is a text captured by
\* preview_pods, never what an exec or a copy session printed.
C21_PreviewPaneShowsPreview ==
    (/\ app.state = "MainMenu"
     /\ app.list_state = Some(2)
     /\ app.output # << >>)
        => app.output \in PreviewTexts

\* C22: from every reachable App, two Esc key events end on MainMenu and run
\* no command, whatever kubectl would answer; one Esc is enough from every
\* screen but CopyPodNameInput.
C22_EscapeReachesMainMenu ==
    \A r1 \in NoCommand \cup Failures : \A r2 \in NoCommand \cup Failures :
        LET one == run_app(app, Key("Esc"), r1)
            two == run_app(one.app, Key("Esc"), r2)
        IN  /\ one.calls = << >>
            /\ two.calls = << >>
            /\ one.exit = "running"
            /\ two.exit = "running"
            /\ two.app.state = "MainMenu"
            /\ (app.state # "CopyPodNameInput") => one.app.state = "MainMenu"

\* Esc was pressed on the name input and again on the pod list: the main
\* menu is shown with the picked pod and the typed name still in the App
C22_Witness ==
    /\ event = Key("Esc")
    /\ calls = << >>
    /\ app.state = "MainMenu"
    /\ is_some(app.selected_pod)
    /\ app.new_pod_name # << >>

====
